---- MODULE Spec2Model ----
(***************************************************************************)
(* Model of natural_language_processing.py: the text-cleaning pipeline     *)
(* (cells In[19] and In[22]), the article fetch loop (In[21]) and the      *)
(* gensim corpus construction and queries (In[23] .. In[26]).              *)
(*                                                                         *)
(* A token is a Python str, modelled as a sequence of one-character        *)
(* strings, so that str.lower, str.isalpha, str comparison and the         *)
(* suffix rules of the WordNet lemmatizer are computed character by        *)
(* character.  A dict is a function on the finite set of its keys; None    *)
(* is the value None.                                                      *)
(***************************************************************************)
EXTENDS Integers, Sequences, FiniteSets, TLC

VARIABLES
  pc,               \* the statement the script executes next
  err,              \* the exception that terminated the script, or "none"
  url_i,            \* fetch loop: index into urls of the next url
  attempts,         \* fetch loop: the urls on which requests.get was called
  responses,        \* In[21]: list of successful responses
  art_i,            \* article loop: index into responses of the next response
  tokens,           \* In[19]/In[22]: word_tokenize(...)
  lower_tokens,
  alpha_only,
  no_stops,
  lemmatized,
  stop_words,       \* the stop list of the pipeline (line 312 or line 411)
  articles,         \* In[22]: list of lemmatized token lists
  token2id,         \* In[23]: dictionary.token2id
  cost_id,          \* In[23]
  corpus,           \* In[24]
  doc,              \* In[25]: corpus[2]
  total_word_count, \* In[26]: defaultdict(int)
  lookup            \* the last lookup made on a built index (lines 433, 436, 475)

vars == <<pc, err, url_i, attempts, responses, art_i, tokens, lower_tokens,
          alpha_only, no_stops, lemmatized, stop_words, articles, token2id,
          cost_id, corpus, doc, total_word_count, lookup>>

fetchVars == <<url_i, attempts, responses>>
cleanVars == <<tokens, lower_tokens, alpha_only, no_stops, lemmatized>>
indexVars == <<token2id, cost_id, corpus, doc, total_word_count, lookup>>

Range(s) == {s[i] : i \in DOMAIN s}

Min2(a, b) == IF a <= b THEN a ELSE b

(***************************************************************************)
(* Python str primitives.                                                  *)
(***************************************************************************)
LowerCase == <<"a","b","c","d","e","f","g","h","i","j","k","l","m",
               "n","o","p","q","r","s","t","u","v","w","x","y","z">>
UpperCase == <<"A","B","C","D","E","F","G","H","I","J","K","L","M",
               "N","O","P","Q","R","S","T","U","V","W","X","Y","Z">>
Digits    == <<"0","1","2","3","4","5","6","7","8","9">>

IndexOf(s, c) == CHOOSE i \in DOMAIN s : s[i] = c

\* ord(c): the code point of a character (ASCII subset)
ord(c) ==
  IF c \in Range(LowerCase) THEN 96 + IndexOf(LowerCase, c)
  ELSE IF c \in Range(UpperCase) THEN 64 + IndexOf(UpperCase, c)
  ELSE IF c \in Range(Digits) THEN 47 + IndexOf(Digits, c)
  ELSE IF c = "'" THEN 39
  ELSE IF c = "," THEN 44
  ELSE 46

\* str.lower()
lower(t) ==
  [i \in DOMAIN t |->
     IF t[i] \in Range(UpperCase) THEN LowerCase[IndexOf(UpperCase, t[i])]
     ELSE t[i]]

\* str.isalpha(): non-empty and every character a letter
isalpha(t) ==
  /\ Len(t) > 0
  /\ \A i \in DOMAIN t : t[i] \in Range(LowerCase) \cup Range(UpperCase)

\* a < b on str: lexicographic by code point
StrLess(a, b) ==
  \E k \in 1..(Min2(Len(a), Len(b)) + 1) :
    /\ \A j \in 1..(k - 1) : a[j] = b[j]
    /\ \/ k > Len(a) /\ k <= Len(b)
       \/ k <= Len(a) /\ k <= Len(b) /\ ord(a[k]) < ord(b[k])

RECURSIVE SortedTokens(_)
\* sorted(...) of a set of distinct str
SortedTokens(S) ==
  IF S = {} THEN <<>>
  ELSE LET m == CHOOSE x \in S : \A y \in S \ {x} : StrLess(x, y)
       IN  <<m>> \o SortedTokens(S \ {m})

\* str.endswith(suffix)
endswith(t, suffix) ==
  /\ Len(suffix) <= Len(t)
  /\ SubSeq(t, Len(t) - Len(suffix) + 1, Len(t)) = suffix

(***************************************************************************)
(* WordNetLemmatizer.lemmatize(word) with the default pos = 'n'            *)
(* (lines 316, 319, 414, 415): WordNet's morphy on the noun index.         *)
(***************************************************************************)
\* the noun lemmas of WordNet among the forms of the modelled texts
WordNetNouns ==
  { <<"w","i","l","l">>, <<"c","o","s","t">>, <<"b","e","n","e","f","i","t">>,
    <<"a","n","a","l","y","s","i","s">>, <<"t","h","o","u">>, <<"c","a","n">> }

\* noun.exc: irregular plurals
NounExceptions ==
  ( <<"a","n","a","l","y","s","e","s">> :> << <<"a","n","a","l","y","s","i","s">> >> )

\* MORPHOLOGICAL_SUBSTITUTIONS[NOUN]
MORPHOLOGICAL_SUBSTITUTIONS ==
  << << <<"s">>, <<>> >>,
     << <<"s","e","s">>, <<"s">> >>,
     << <<"v","e","s">>, <<"f">> >>,
     << <<"x","e","s">>, <<"x">> >>,
     << <<"z","e","s">>, <<"z">> >>,
     << <<"c","h","e","s">>, <<"c","h">> >>,
     << <<"s","h","e","s">>, <<"s","h">> >>,
     << <<"m","e","n">>, <<"m","a","n">> >>,
     << <<"i","e","s">>, <<"y">> >> >>

RECURSIVE rules_for(_, _)
\* [form[:-len(old)] + new for old, new in substitutions[k..] if form.endswith(old)]
rules_for(form, k) ==
  IF k > Len(MORPHOLOGICAL_SUBSTITUTIONS) THEN <<>>
  ELSE LET old == MORPHOLOGICAL_SUBSTITUTIONS[k][1]
           new == MORPHOLOGICAL_SUBSTITUTIONS[k][2]
       IN  (IF endswith(form, old)
            THEN << SubSeq(form, 1, Len(form) - Len(old)) \o new >>
            ELSE <<>>) \o rules_for(form, k + 1)

RECURSIVE apply_rules(_)
apply_rules(forms) ==
  IF forms = <<>> THEN <<>>
  ELSE rules_for(Head(forms), 1) \o apply_rules(Tail(forms))

\* filter_forms: the forms in the noun index, duplicates dropped, order kept
filter_forms(forms) ==
  LET keep(i) == /\ forms[i] \in WordNetNouns
                 /\ \A j \in 1..(i - 1) : forms[j] # forms[i]
      RECURSIVE go(_)
      go(i) == IF i > Len(forms) THEN <<>>
               ELSE (IF keep(i) THEN <<forms[i]>> ELSE <<>>) \o go(i + 1)
  IN  go(1)

RECURSIVE morphy_loop(_)
\* step 3 of morphy: keep applying the rules until a form is in the index
morphy_loop(forms) ==
  IF forms = <<>> THEN <<>>
  ELSE LET next == apply_rules(forms)
           results == filter_forms(next)
       IN  IF results # <<>> THEN results ELSE morphy_loop(next)

morphy(form) ==
  IF form \in DOMAIN NounExceptions
  THEN filter_forms(<<form>> \o NounExceptions[form])
  ELSE LET forms == apply_rules(<<form>>)
           results == filter_forms(<<form>> \o forms)
       IN  IF results # <<>> THEN results ELSE morphy_loop(forms)

\* min(lemmas, key=len): the first lemma of minimal length
MinByLen(lemmas) ==
  lemmas[CHOOSE i \in DOMAIN lemmas :
           /\ \A j \in DOMAIN lemmas : Len(lemmas[i]) <= Len(lemmas[j])
           /\ \A j \in 1..(i - 1) : Len(lemmas[j]) > Len(lemmas[i])]

lemmatize(word) ==
  LET lemmas == morphy(word)
  IN  IF lemmas # <<>> THEN MinByLen(lemmas) ELSE word

(***************************************************************************)
(* Stop-word lists (lines 310, 311, 410).                                  *)
(***************************************************************************)
english_stops ==
  << <<"i">>, <<"m","e">>, <<"m","y">>, <<"m","y","s","e","l","f">>, <<"w","e">>,
     <<"o","u","r">>, <<"o","u","r","s">>, <<"o","u","r","s","e","l","v","e","s">>,
     <<"y","o","u">>, <<"y","o","u","r">>, <<"y","o","u","r","s">>,
     <<"y","o","u","r","s","e","l","f">>, <<"y","o","u","r","s","e","l","v","e","s">>,
     <<"h","e">>, <<"h","i","m">>, <<"h","i","s">>, <<"h","i","m","s","e","l","f">>,
     <<"s","h","e">>, <<"h","e","r">>, <<"h","e","r","s">>, <<"h","e","r","s","e","l","f">>,
     <<"i","t">>, <<"i","t","s">>, <<"i","t","s","e","l","f">>, <<"t","h","e","y">>,
     <<"t","h","e","m">>, <<"t","h","e","i","r">>, <<"t","h","e","i","r","s">>,
     <<"t","h","e","m","s","e","l","v","e","s">>, <<"w","h","a","t">>, <<"w","h","i","c","h">>,
     <<"w","h","o">>, <<"w","h","o","m">>, <<"t","h","i","s">>, <<"t","h","a","t">>,
     <<"t","h","e","s","e">>, <<"t","h","o","s","e">>, <<"a","m">>, <<"i","s">>,
     <<"a","r","e">>, <<"w","a","s">>, <<"w","e","r","e">>, <<"b","e">>, <<"b","e","e","n">>,
     <<"b","e","i","n","g">>, <<"h","a","v","e">>, <<"h","a","s">>, <<"h","a","d">>,
     <<"h","a","v","i","n","g">>, <<"d","o">>, <<"d","o","e","s">>, <<"d","i","d">>,
     <<"d","o","i","n","g">>, <<"a">>, <<"a","n">>, <<"t","h","e">>, <<"a","n","d">>,
     <<"b","u","t">>, <<"i","f">>, <<"o","r">>, <<"b","e","c","a","u","s","e">>, <<"a","s">>,
     <<"u","n","t","i","l">>, <<"w","h","i","l","e">>, <<"o","f">>, <<"a","t">>, <<"b","y">>,
     <<"f","o","r">>, <<"w","i","t","h">>, <<"a","b","o","u","t">>,
     <<"a","g","a","i","n","s","t">>, <<"b","e","t","w","e","e","n">>, <<"i","n","t","o">>,
     <<"t","h","r","o","u","g","h">>, <<"d","u","r","i","n","g">>, <<"b","e","f","o","r","e">>,
     <<"a","f","t","e","r">>, <<"a","b","o","v","e">>, <<"b","e","l","o","w">>, <<"t","o">>,
     <<"f","r","o","m">>, <<"u","p">>, <<"d","o","w","n">>, <<"i","n">>, <<"o","u","t">>,
     <<"o","n">>, <<"o","f","f">>, <<"o","v","e","r">>, <<"u","n","d","e","r">>,
     <<"a","g","a","i","n">>, <<"f","u","r","t","h","e","r">>, <<"t","h","e","n">>,
     <<"o","n","c","e">>, <<"h","e","r","e">>, <<"t","h","e","r","e">>, <<"w","h","e","n">>,
     <<"w","h","e","r","e">>, <<"w","h","y">>, <<"h","o","w">>, <<"a","l","l">>,
     <<"a","n","y">>, <<"b","o","t","h">>, <<"e","a","c","h">>, <<"f","e","w">>,
     <<"m","o","r","e">>, <<"m","o","s","t">>, <<"o","t","h","e","r">>, <<"s","o","m","e">>,
     <<"s","u","c","h">>, <<"n","o">>, <<"n","o","r">>, <<"n","o","t">>, <<"o","n","l","y">>,
     <<"o","w","n">>, <<"s","a","m","e">>, <<"s","o">>, <<"t","h","a","n">>, <<"t","o","o">>,
     <<"v","e","r","y">>, <<"s">>, <<"t">>, <<"c","a","n">>, <<"w","i","l","l">>,
     <<"j","u","s","t">>, <<"d","o","n">>, <<"s","h","o","u","l","d">>, <<"n","o","w">>,
     <<"d">>, <<"l","l">>, <<"m">>, <<"o">>, <<"r","e">>, <<"v","e">>, <<"y">>, <<"a","i","n">>,
     <<"a","r","e","n">>, <<"c","o","u","l","d","n">>, <<"d","i","d","n">>,
     <<"d","o","e","s","n">>, <<"h","a","d","n">>, <<"h","a","s","n">>, <<"h","a","v","e","n">>,
     <<"i","s","n">>, <<"m","a">>, <<"m","i","g","h","t","n">>, <<"m","u","s","t","n">>,
     <<"n","e","e","d","n">>, <<"s","h","a","n">>, <<"s","h","o","u","l","d","n">>,
     <<"w","a","s","n">>, <<"w","e","r","e","n">>, <<"w","o","n">>, <<>> >>

earlymodern_stops ==
  << <<"a","r","t">>, <<"d","o","t","h">>, <<"d","o","s","t">>, <<"'","e","r","e">>,
     <<"h","a","s","t">>, <<"h","a","t","h">>, <<"h","e","n","c","e">>,
     <<"h","i","t","h","e","r">>, <<"n","i","g","h">>, <<"o","f","t">>,
     <<"s","h","o","u","l","d","'","s","t">>, <<"t","h","i","t","h","e","r">>,
     <<"t","i","t","h","e","r">>, <<"t","h","e","e">>, <<"t","h","o","u">>,
     <<"t","h","i","n","e">>, <<"t","h","y">>, <<"'","t","i","s">>, <<"'","t","w","a","s">>,
     <<"w","a","s","t">>, <<"w","h","e","n","c","e">>, <<"w","h","e","r","e","f","o","r","e">>,
     <<"w","h","e","r","e","t","o">>, <<"w","i","t","h","a","l">>,
     <<"w","o","u","l","d","'","s","t">>, <<"y","e">>, <<"y","o","n">>,
     <<"y","o","n","d","e","r">> >>
(***************************************************************************)
(* The cleaning pipeline, statement by statement (lines 304-319, 404-415). *)
(***************************************************************************)
\* [t.lower() for t in tokens]
LowerTokens(toks) == [i \in DOMAIN toks |-> lower(toks[i])]

\* [t for t in lower_tokens if t.isalpha()]
AlphaOnly(toks) == SelectSeq(toks, isalpha)

\* mutant of NoStops: sorted(set(toks) - set(stops))
NoStopsViaSet(toks, stops) ==
  SortedTokens({t \in Range(toks) : \A i \in DOMAIN stops : stops[i] # t})

\* [t for t in alpha_only if t not in stops]
NoStops(toks, stops) ==
  LET NotStop(t) == \A i \in DOMAIN stops : stops[i] # t
  IN  SelectSeq(toks, NotStop)

\* [wordnet_lemmatizer.lemmatize(t) for t in no_stops]
Lemmatized(toks) == [i \in DOMAIN toks |-> lemmatize(toks[i])]

\* the four statements in sequence
Normalize(toks, stops) ==
  Lemmatized(NoStops(AlphaOnly(LowerTokens(toks)), stops))

(***************************************************************************)
(* Python values: Optional results and dicts.                              *)
(***************************************************************************)
\* an Optional result: None, or Some(x) for the value x
None == <<>>
Some(x) == <<x>>

EmptyDict == <<>>

\* d[k] = v on a dict
SetItem(d, k, v) == [x \in (DOMAIN d) \cup {k} |-> IF x = k THEN v ELSE d[x]]

\* mutant of DictGet: dict.get(key, 0)
DictGetDefaultZero(d, key) == IF key \in DOMAIN d THEN Some(d[key]) ELSE Some(0)

\* dict.get(key): the value, or None for a missing key; the dict is not changed
DictGet(d, key) == IF key \in DOMAIN d THEN Some(d[key]) ELSE None

\* defaultdict(int).__getitem__(key): a missing key is inserted with int() = 0
\* and that value is returned (lines 473, 475)
DefaultDictGetItem(d, key) ==
  IF key \in DOMAIN d
  THEN [value |-> d[key], dict |-> d]
  ELSE [value |-> 0, dict |-> SetItem(d, key, 0)]

(***************************************************************************)
(* gensim.corpora.Dictionary (lines 430-436, 443).                         *)
(***************************************************************************)
FirstIndex(document, w) ==
  CHOOSE i \in DOMAIN document :
    document[i] = w /\ \A j \in 1..(i - 1) : document[j] # w

\* mutant of Counter: every word of the document counted once
CounterDistinct(document) == [w \in Range(document) |-> 1]

\* the (word -> frequency) counter doc2bow builds over a document
Counter(document) ==
  [w \in Range(document) |->
     Cardinality({i \in DOMAIN document : document[i] = w})]

RECURSIVE Distinct(_)
\* the distinct tokens of a list in the order of their first occurrence
Distinct(document) ==
  IF document = <<>> THEN <<>>
  ELSE LET rest == Distinct(SubSeq(document, 1, Len(document) - 1))
           w == document[Len(document)]
       IN  IF w \in Range(rest) THEN rest ELSE Append(rest, w)

\* mutant of Missing: the missing words in the order the counter holds them
MissingFirstSeen(t2i, document) ==
  LET NotKnown(w) == w \notin DOMAIN t2i
  IN  SelectSeq(Distinct(document), NotKnown)

\* doc2bow(allow_update=True): missing = sorted(words of counter not in token2id)
Missing(t2i, document) ==
  SortedTokens({w \in Range(document) : w \notin DOMAIN t2i})

\* mutant of AddMissing: the new id is computed once, before the loop
AddMissingStaleLen(t2i, missing) ==
  [w \in (DOMAIN t2i) \cup Range(missing) |->
     IF w \in DOMAIN t2i THEN t2i[w] ELSE Cardinality(DOMAIN t2i)]

RECURSIVE AddMissing(_, _)
\* for w, _ in missing: token2id[w] = len(token2id)
AddMissing(t2i, missing) ==
  IF missing = <<>> THEN t2i
  ELSE AddMissing(SetItem(t2i, Head(missing), Cardinality(DOMAIN t2i)),
                  Tail(missing))

RECURSIVE add_documents(_, _)
\* for document in documents: self.doc2bow(document, allow_update=True)
add_documents(t2i, documents) ==
  IF documents = <<>> THEN t2i
  ELSE add_documents(AddMissing(t2i, Missing(t2i, Head(documents))),
                     Tail(documents))

\* Dictionary(documents).token2id
Dictionary(documents) == add_documents(EmptyDict, documents)

\* Dictionary.get(tokenid): id2token = revdict(token2id); a KeyError gives None
DictionaryGet(t2i, tokenid) ==
  IF tokenid = None THEN None
  ELSE IF \E w \in DOMAIN t2i : t2i[w] = tokenid[1]
       THEN Some(CHOOSE w \in DOMAIN t2i : t2i[w] = tokenid[1])
       ELSE None

RECURSIVE SortedById(_)
\* sorted(result.items()) for a dict id -> frequency
SortedById(result) ==
  IF DOMAIN result = {} THEN <<>>
  ELSE LET m == CHOOSE x \in DOMAIN result : \A y \in DOMAIN result : x <= y
           rest == [x \in (DOMAIN result) \ {m} |-> result[x]]
       IN  << <<m, result[m]>> >> \o SortedById(rest)

\* the frequency doc2bow lists for a token of the document
Freq(document, w) == Counter(document)[w]

\* dictionary.doc2bow(document):
\*   result = {token2id[w]: freq for w, freq in counter.items() if w in token2id}
\*   return sorted(result.items())
doc2bow(t2i, document) ==
  LET known == {w \in Range(document) : w \in DOMAIN t2i}
      ids == {t2i[w] : w \in known}
      \* on equal ids the item inserted last in the counter is the one kept
      last(id) == CHOOSE w \in known :
                    /\ t2i[w] = id
                    /\ \A v \in known : t2i[v] = id =>
                         FirstIndex(document, v) <= FirstIndex(document, w)
  IN  SortedById([id \in ids |-> Freq(document, last(id))])

RECURSIVE chain(_)
\* itertools.chain.from_iterable(corpus)
chain(vectors) ==
  IF vectors = <<>> THEN <<>> ELSE Head(vectors) \o chain(Tail(vectors))

\* mutant of AddCount: total_word_count[word_id] = word_count
AddCountAssign(d, word_id, word_count) == SetItem(d, word_id, word_count)

\* total_word_count[word_id] += word_count
AddCount(d, word_id, word_count) ==
  LET r == DefaultDictGetItem(d, word_id)
  IN  SetItem(r.dict, word_id, r.value + word_count)

RECURSIVE TotalWordCount(_, _)
\* for word_id, word_count in pairs: total_word_count[word_id] += word_count
TotalWordCount(d, pairs) ==
  IF pairs = <<>> THEN d
  ELSE TotalWordCount(AddCount(d, Head(pairs)[1], Head(pairs)[2]), Tail(pairs))

(***************************************************************************)
(* Inputs.                                                                 *)
(***************************************************************************)
THE      == <<"T","h","e">>
WILLS    == <<"W","i","l","l","s">>
COSTS    == <<"c","o","s","t","s">>
COST     == <<"c","o","s","t">>
BENEFIT  == <<"b","e","n","e","f","i","t">>
ANALYSIS == <<"a","n","a","l","y","s","i","s">>
ANALYSES == <<"A","n","a","l","y","s","e","s">>
THOU     == <<"t","h","o","u">>
KPIS     == <<"k","p","i","s">>
NUM42    == <<"4","2">>
COMMA    == <<",">>

\* urls (lines 348-360)
NumUrls == 12

\* bounds of the explored inputs
MaxTokens == 3
MaxDocs == 4
MaxCorpusTokens == 3

SeqsUpTo(S, n) == UNION {[1..k -> S] : k \in 0..n}

\* tokens word_tokenize can return for a text
RawTokens == {THE, WILLS, COSTS, COST, THOU, KPIS, NUM42, COMMA}

\* word_tokenize(text) of the page a url can serve
PageTokens == { <<THE, COSTS, COMMA, COST, NUM42, BENEFIT>>,
                <<ANALYSES, COST, WILLS>> }

\* lemmas a cleaned article is made of
Lemmas == {COST, BENEFIT, ANALYSIS}

RECURSIVE SumSeq(_)
SumSeq(s) == IF s = <<>> THEN 0 ELSE Head(s) + SumSeq(Tail(s))

RECURSIVE Split(_, _)
\* the list of documents cut from a flat token list, lens[i] tokens to document i
Split(flat, lens) ==
  IF lens = <<>> THEN <<>>
  ELSE <<SubSeq(flat, 1, Head(lens))>>
         \o Split(SubSeq(flat, Head(lens) + 1, Len(flat)), Tail(lens))

\* every list of at most MaxDocs documents holding at most MaxCorpusTokens
\* tokens in all
ArticleLists ==
  { Split(flat, lens) :
      <<flat, lens>> \in
        { fl \in SeqsUpTo(Lemmas, MaxCorpusTokens)
                   \X SeqsUpTo(0..MaxCorpusTokens, MaxDocs) :
            SumSeq(fl[2]) = Len(fl[1]) } }

\* the two documents of the vocabulary example
ExampleArticles == << <<COST, COST, BENEFIT>>, <<BENEFIT, ANALYSIS>> >>

NoLookup == [op |-> "none", present |-> FALSE, result |-> None, unchanged |-> TRUE]

(***************************************************************************)
(* In[21]: the fetch loop (lines 362-379).                                 *)
(***************************************************************************)
\* whether the name HTTPError is bound when line 370 is evaluated: the script
\* imports requests (line 337) and never imports or defines HTTPError
HTTPErrorBound == FALSE

\* what the except clauses of lines 370-373 do with an exception raised in
\* the try body: the expression of the first clause is evaluated first
ExceptClauses(exc) ==
  IF ~HTTPErrorBound THEN "NameError"
  ELSE "handled"

\* requests.get returns and raise_for_status passes: the else clause appends
FetchOk ==
  /\ pc = "fetch"
  /\ url_i <= NumUrls
  /\ \E page \in PageTokens :
       responses' = Append(responses, [url |-> url_i, tokens |-> page])
  /\ attempts' = Append(attempts, [url |-> url_i, ok |-> TRUE])
  /\ url_i' = url_i + 1
  /\ UNCHANGED <<pc, err, art_i, cleanVars, stop_words, articles, indexVars>>

\* requests.get raises (ConnectionError) or raise_for_status raises (HTTPError)
FetchRaises ==
  /\ pc = "fetch"
  /\ url_i <= NumUrls
  /\ \E exc \in {"ConnectionError", "HTTPError"} :
       /\ attempts' = Append(attempts, [url |-> url_i, ok |-> FALSE])
       /\ IF ExceptClauses(exc) = "handled"
          THEN /\ url_i' = url_i + 1
               /\ UNCHANGED <<pc, err>>
          ELSE /\ pc' = "crashed"
               /\ err' = ExceptClauses(exc)
               /\ UNCHANGED url_i
  /\ UNCHANGED <<responses, art_i, cleanVars, stop_words, articles, indexVars>>

\* line 379, then In[22] begins (lines 388-389)
FetchDone ==
  /\ pc = "fetch"
  /\ url_i > NumUrls
  /\ pc' = "articles"
  /\ articles' = <<>>
  /\ art_i' = 1
  /\ UNCHANGED <<err, fetchVars, cleanVars, stop_words, indexVars>>

(***************************************************************************)
(* In[22]: the article loop (lines 392-418); In[19]: the play (300-319).   *)
(***************************************************************************)
\* lines 395-401: text extraction and word_tokenize
TokenizeArticle ==
  /\ pc = "articles"
  /\ art_i <= Len(responses)
  /\ tokens' = responses[art_i].tokens
  /\ pc' = "tokenized"
  /\ UNCHANGED <<err, fetchVars, art_i, lower_tokens, alpha_only, no_stops,
                 lemmatized, stop_words, articles, indexVars>>

\* lines 304, 404
LowerCaseTokens ==
  /\ pc = "tokenized"
  /\ lower_tokens' = LowerTokens(tokens)
  /\ pc' = "lowered"
  /\ UNCHANGED <<err, fetchVars, art_i, tokens, alpha_only, no_stops,
                 lemmatized, stop_words, articles, indexVars>>

\* lines 307, 407
RemoveNonAlpha ==
  /\ pc = "lowered"
  /\ alpha_only' = AlphaOnly(lower_tokens)
  /\ pc' = "alpha"
  /\ UNCHANGED <<err, fetchVars, art_i, tokens, lower_tokens, no_stops,
                 lemmatized, stop_words, articles, indexVars>>

\* lines 310-312, 410-411
RemoveStopWords ==
  /\ pc = "alpha"
  /\ no_stops' = NoStops(alpha_only, stop_words)
  /\ pc' = "nostops"
  /\ UNCHANGED <<err, fetchVars, art_i, tokens, lower_tokens, alpha_only,
                 lemmatized, stop_words, articles, indexVars>>

\* lines 315-319, 414-415
LemmatizeTokens ==
  /\ pc = "nostops"
  /\ lemmatized' = Lemmatized(no_stops)
  /\ pc' = "lemmatized"
  /\ UNCHANGED <<err, fetchVars, art_i, tokens, lower_tokens, alpha_only,
                 no_stops, stop_words, articles, indexVars>>

\* line 418
AppendArticle ==
  /\ pc = "lemmatized"
  /\ articles' = Append(articles, lemmatized)
  /\ art_i' = art_i + 1
  /\ pc' = "articles"
  /\ UNCHANGED <<err, fetchVars, cleanVars, stop_words, indexVars>>

\* the loop of line 392 is exhausted; line 421 prints
ArticlesDone ==
  /\ pc = "articles"
  /\ art_i > Len(responses)
  /\ pc' = "dictionary"
  /\ UNCHANGED <<err, fetchVars, art_i, cleanVars, stop_words, articles,
                 indexVars>>

(***************************************************************************)
(* In[23] .. In[26]: the corpus and its queries (lines 430-480).           *)
(***************************************************************************)
\* line 430
BuildDictionary ==
  /\ pc = "dictionary"
  /\ token2id' = Dictionary(articles)
  /\ pc' = "cost"
  /\ UNCHANGED <<err, fetchVars, art_i, cleanVars, stop_words, articles,
                 cost_id, corpus, doc, total_word_count, lookup>>

\* lines 433-436
SelectCostId ==
  /\ pc = "cost"
  /\ cost_id' = DictGet(token2id, COST)
  /\ lookup' = [op |-> "dictionary.get",
                present |-> (cost_id' # None),
                result |-> DictionaryGet(token2id, cost_id'),
                unchanged |-> TRUE]
  /\ pc' = "corpus"
  /\ UNCHANGED <<err, fetchVars, art_i, cleanVars, stop_words, articles,
                 token2id, corpus, doc, total_word_count>>

\* line 443
BuildCorpus ==
  /\ pc = "corpus"
  /\ corpus' = [i \in DOMAIN articles |-> doc2bow(token2id, articles[i])]
  /\ pc' = "print"
  /\ UNCHANGED <<err, fetchVars, art_i, cleanVars, stop_words, articles,
                 token2id, cost_id, doc, total_word_count, lookup>>

\* line 446: corpus[3] is the fourth document; a shorter list raises IndexError
PrintDocument ==
  /\ pc = "print"
  /\ IF Len(corpus) >= 4
     THEN pc' = "doc" /\ UNCHANGED err
     ELSE pc' = "crashed" /\ err' = "IndexError"
  /\ UNCHANGED <<fetchVars, art_i, cleanVars, stop_words, articles, indexVars>>

\* lines 459-466: corpus[2] is the third document
SaveDocument ==
  /\ pc = "doc"
  /\ IF Len(corpus) >= 3
     THEN doc' = corpus[3] /\ pc' = "totals" /\ UNCHANGED err
     ELSE pc' = "crashed" /\ err' = "IndexError" /\ UNCHANGED doc
  /\ UNCHANGED <<fetchVars, art_i, cleanVars, stop_words, articles, token2id,
                 cost_id, corpus, total_word_count, lookup>>

\* lines 473-475 (lines 478-480 print)
CountTotals ==
  /\ pc = "totals"
  /\ total_word_count' = TotalWordCount(EmptyDict, chain(corpus))
  /\ pc' = "done"
  /\ UNCHANGED <<err, fetchVars, art_i, cleanVars, stop_words, articles,
                 token2id, cost_id, corpus, doc, lookup>>

(***************************************************************************)
(* Lookups on the built index: token2id.get (line 433), dictionary.get     *)
(* (line 436) and total_word_count[word_id] (line 475).                    *)
(***************************************************************************)
LookupToken ==
  /\ pc = "done"
  /\ \E w \in Lemmas :
       lookup' = [op |-> "token2id.get",
                  present |-> (w \in DOMAIN token2id),
                  result |-> DictGet(token2id, w),
                  unchanged |-> TRUE]
  /\ UNCHANGED <<pc, err, fetchVars, art_i, cleanVars, stop_words, articles,
                 token2id, cost_id, corpus, doc, total_word_count>>

LookupId ==
  /\ pc = "done"
  /\ \E id \in 0..Cardinality(DOMAIN token2id) :
       lookup' = [op |-> "dictionary.get",
                  present |-> (\E w \in DOMAIN token2id : token2id[w] = id),
                  result |-> DictionaryGet(token2id, Some(id)),
                  unchanged |-> TRUE]
  /\ UNCHANGED <<pc, err, fetchVars, art_i, cleanVars, stop_words, articles,
                 token2id, cost_id, corpus, doc, total_word_count>>

ReadTotal ==
  /\ pc = "done"
  /\ \E id \in 0..Cardinality(DOMAIN token2id) :
       LET r == DefaultDictGetItem(total_word_count, id)
       IN  /\ total_word_count' = r.dict
           /\ lookup' = [op |-> "total_word_count[]",
                         present |-> (id \in DOMAIN total_word_count),
                         result |-> Some(r.value),
                         unchanged |-> (r.dict = total_word_count)]
  /\ pc' = "read"
  /\ UNCHANGED <<err, fetchVars, art_i, cleanVars, stop_words, articles,
                 token2id, cost_id, corpus, doc>>

(***************************************************************************)
(* Specifications.                                                         *)
(***************************************************************************)
Blank ==
  /\ err = "none"
  /\ url_i = 1
  /\ attempts = <<>>
  /\ responses = <<>>
  /\ art_i = 1
  /\ lower_tokens = <<>>
  /\ alpha_only = <<>>
  /\ no_stops = <<>>
  /\ lemmatized = <<>>
  /\ token2id = EmptyDict
  /\ cost_id = None
  /\ corpus = <<>>
  /\ doc = <<>>
  /\ total_word_count = EmptyDict
  /\ lookup = NoLookup

\* the script from In[21] on: fetch, clean, index, query
Init ==
  /\ Blank
  /\ pc = "fetch"
  /\ tokens = <<>>
  /\ stop_words = english_stops
  /\ articles = <<>>

Next ==
  \/ FetchOk \/ FetchRaises \/ FetchDone
  \/ TokenizeArticle \/ LowerCaseTokens \/ RemoveNonAlpha \/ RemoveStopWords
  \/ LemmatizeTokens \/ AppendArticle \/ ArticlesDone
  \/ BuildDictionary \/ SelectCostId \/ BuildCorpus \/ PrintDocument
  \/ SaveDocument \/ CountTotals

Spec == Init /\ [][Next]_vars

\* the cleaning pipeline on any token list, under either stop list
InitClean ==
  /\ Blank
  /\ pc = "tokenized"
  /\ tokens \in SeqsUpTo(RawTokens, MaxTokens)
  /\ stop_words \in {english_stops \o earlymodern_stops, english_stops}
  /\ articles = <<>>

NextClean ==
  LowerCaseTokens \/ RemoveNonAlpha \/ RemoveStopWords \/ LemmatizeTokens

SpecClean == InitClean /\ [][NextClean]_vars

\* the corpus construction and its queries on any list of cleaned articles
InitIndex ==
  /\ Blank
  /\ pc = "dictionary"
  /\ tokens = <<>>
  /\ stop_words = english_stops
  /\ articles \in ArticleLists \cup {ExampleArticles}

NextIndex ==
  \/ BuildDictionary \/ SelectCostId \/ BuildCorpus \/ PrintDocument
  \/ SaveDocument \/ CountTotals
  \/ LookupToken \/ LookupId \/ ReadTotal

SpecIndex == InitIndex /\ [][NextIndex]_vars

(***************************************************************************)
(* Properties.                                                             *)
(***************************************************************************)
RECURSIVE IsSubsequence(_, _)
\* a is b with some elements deleted
IsSubsequence(a, b) ==
  IF a = <<>> THEN TRUE
  ELSE IF b = <<>> THEN FALSE
  ELSE IF Head(a) = Head(b) THEN IsSubsequence(Tail(a), Tail(b))
  ELSE IsSubsequence(a, Tail(b))

Occurrences(s, x) == Cardinality({i \in DOMAIN s : s[i] = x})

IsStop(t) == \E i \in DOMAIN stop_words : stop_words[i] = t

\* the tokens of all the articles
ArticleTokens == UNION {Range(articles[i]) : i \in DOMAIN articles}

\* the index of the first article holding w
FirstDoc(w) ==
  CHOOSE i \in DOMAIN articles :
    w \in Range(articles[i]) /\ \A j \in 1..(i - 1) : w \notin Range(articles[j])

\* the position of the first occurrence of w over all the articles in order
FirstSeen(w) == FirstIndex(chain(articles), w)

Ids == {token2id[w] : w \in DOMAIN token2id}

DictionaryBuilt == pc \notin {"fetch", "articles", "tokenized", "lowered",
                              "alpha", "nostops", "lemmatized", "dictionary"}

CorpusBuilt == DictionaryBuilt /\ pc \notin {"cost", "corpus"}

RECURSIVE SumCounts(_)
\* the sum of the counts of a list of (id, count) pairs
SumCounts(pairs) ==
  IF pairs = <<>> THEN 0 ELSE Head(pairs)[2] + SumCounts(Tail(pairs))

\* the count a document vector lists for an id, 0 when it lists none
CountIn(vector, id) ==
  SumCounts(SelectSeq(vector, LAMBDA p : p[1] = id))

RECURSIVE SumOverCorpus(_, _)
SumOverCorpus(vectors, id) ==
  IF vectors = <<>> THEN 0
  ELSE CountIn(Head(vectors), id) + SumOverCorpus(Tail(vectors), id)

\* the ids the document vectors list
CorpusIds ==
  UNION {{corpus[i][k][1] : k \in DOMAIN corpus[i]} : i \in DOMAIN corpus}

\* C1: when the fetch loop is over, no exception has left it, every url was
\* attempted exactly once in order, and responses holds the responses of the
\* successful urls in url order.
C1_FetchLoopSkipsFailures ==
  pc # "fetch" =>
    /\ err = "none"
    /\ Len(attempts) = NumUrls
    /\ \A i \in DOMAIN attempts : attempts[i].url = i
    /\ LET Succeeded(a) == a.ok
           ok == SelectSeq(attempts, Succeeded)
       IN  /\ Len(responses) = Len(ok)
           /\ \A i \in DOMAIN responses : responses[i].url = ok[i].url

\* C2 as stated: the k-th distinct token met, scanning the documents in order
\* and each document's tokens in sequence, has id k-1.
C2_IdsInFirstSeenOrder ==
  DictionaryBuilt =>
    /\ DOMAIN token2id = ArticleTokens
    /\ \A w \in DOMAIN token2id :
         token2id[w] = Cardinality({v \in ArticleTokens : FirstSeen(v) < FirstSeen(w)})

\* C2 amended: ids are dense from 0, a token first met in an earlier document
\* has the smaller id, and of two tokens first met in the same document the
\* smaller str has the smaller id; this fixes the vocabulary for a document
\* order.
C2_IdsByDocumentThenSorted ==
  DictionaryBuilt =>
    /\ DOMAIN token2id = ArticleTokens
    /\ \A w \in DOMAIN token2id :
         token2id[w] =
           Cardinality({v \in ArticleTokens :
                          \/ FirstDoc(v) < FirstDoc(w)
                          \/ FirstDoc(v) = FirstDoc(w) /\ StrLess(v, w)})

\* a vocabulary whose ids differ from the first-seen order, built from two
\* documents or more
C2_Witness ==
  /\ DictionaryBuilt
  /\ Len(articles) >= 2
  /\ \E v, w \in DOMAIN token2id :
       FirstSeen(v) < FirstSeen(w) /\ token2id[w] < token2id[v]

\* C3: no stop word of the pipeline's stop list occurs in lemmatized.
C3_NoStopWordInOutput ==
  pc = "lemmatized" => \A i \in DOMAIN lemmatized : ~IsStop(lemmatized[i])

\* C4: no error terminates the run, and articles and corpus hold one entry per
\* retrieved response, whichever urls failed.
C4_RunCompletesOnRetrieved ==
  /\ pc # "crashed"
  /\ pc = "done" =>
       /\ Len(articles) = Len(responses)
       /\ Len(corpus) = Len(responses)

\* C5: the vocabulary gives every distinct token of the articles one id, no
\* two tokens the same id, as many ids as distinct tokens, and
\* dictionary.get(token2id.get(w)) is w.
C5_VocabularyOneToOne ==
  DictionaryBuilt =>
    /\ DOMAIN token2id = ArticleTokens
    /\ \A v, w \in DOMAIN token2id : token2id[v] = token2id[w] => v = w
    /\ Cardinality(Ids) = Cardinality(ArticleTokens)
    /\ \A w \in ArticleTokens :
         DictionaryGet(token2id, DictGet(token2id, w)) = Some(w)

\* a vocabulary of three tokens, one of them met in two documents
C5_Witness ==
  /\ DictionaryBuilt
  /\ Cardinality(DOMAIN token2id) >= 3
  /\ \E w \in DOMAIN token2id, i, j \in DOMAIN articles :
       i < j /\ w \in Range(articles[i]) /\ w \in Range(articles[j])

\* C6: each document vector sums to the number of tokens of its article that
\* are in the vocabulary, which is the article's length; it lists an id at
\* most once, and every count is at least 1.
C6_VectorSumsToLength ==
  CorpusBuilt =>
    /\ Len(corpus) = Len(articles)
    /\ \A i \in DOMAIN corpus :
         /\ SumCounts(corpus[i]) =
              Cardinality({k \in DOMAIN articles[i] :
                             articles[i][k] \in DOMAIN token2id})
         /\ SumCounts(corpus[i]) = Len(articles[i])
         /\ \A j, k \in DOMAIN corpus[i] :
              corpus[i][j][1] = corpus[i][k][1] => j = k
         /\ \A k \in DOMAIN corpus[i] : corpus[i][k][2] >= 1

\* a vector with a count of 2 or more and a second id
C6_Witness ==
  /\ CorpusBuilt
  /\ \E i \in DOMAIN corpus :
       /\ Len(corpus[i]) >= 2
       /\ \E k \in DOMAIN corpus[i] : corpus[i][k][2] >= 2

\* C7: total_word_count maps every id of the corpus to the sum of its counts
\* over the document vectors, is the same mapping for every order of the
\* document vectors, and its values sum to the sum of all the counts.
C7_TotalsAreOrderIndependentSums ==
  pc = "done" =>
    /\ DOMAIN total_word_count = CorpusIds
    /\ \A id \in CorpusIds :
         total_word_count[id] = SumOverCorpus(corpus, id)
    /\ \A p \in Permutations(DOMAIN corpus) :
         TotalWordCount(EmptyDict, chain([i \in DOMAIN corpus |-> corpus[p[i]]]))
           = total_word_count
    /\ SumCounts(SortedById(total_word_count)) = SumCounts(chain(corpus))

\* totals over an id that two document vectors list with different counts
C7_Witness ==
  /\ pc = "done"
  /\ \E id \in CorpusIds, i, j \in DOMAIN corpus :
       /\ i < j
       /\ CountIn(corpus[i], id) >= 1
       /\ CountIn(corpus[j], id) > CountIn(corpus[i], id)

\* C8: cleaning the output of the pipeline again returns it unchanged, and
\* every token of the output is its own lemma.
C8_NormalizeIdempotent ==
  pc = "lemmatized" =>
    /\ Normalize(lemmatized, stop_words) = lemmatized
    /\ \A i \in DOMAIN lemmatized : lemmatize(lemmatized[i]) = lemmatized[i]

\* C9 as stated: every lookup of a key that is not in the mapping returns
\* None and leaves the mapping as it was.
C9_AbsentLookupIsExplicit ==
  (lookup.op # "none" /\ ~lookup.present) =>
    lookup.result = None /\ lookup.unchanged

\* C9 amended: token2id.get and dictionary.get return None for a key that is
\* not in the vocabulary, a value for one that is, and change nothing;
\* reading total_word_count[id] for an id that is not in it returns 0 and
\* inserts id with count 0.
C9_AbsentLookupByMapping ==
  /\ lookup.op \in {"token2id.get", "dictionary.get"} =>
       /\ lookup.present <=> lookup.result # None
       /\ lookup.unchanged
  /\ (lookup.op = "total_word_count[]" /\ ~lookup.present) =>
       /\ lookup.result = Some(0)
       /\ ~lookup.unchanged
       /\ \E id \in DOMAIN total_word_count :
            id \notin CorpusIds /\ total_word_count[id] = 0

\* a read of total_word_count for an id of no document, on a vocabulary that
\* lacks one of the looked-up tokens
C9_Witness ==
  /\ pc = "read"
  /\ ~lookup.present
  /\ \E w \in Lemmas : w \notin DOMAIN token2id

\* C10: the filters only delete: no_stops is a subsequence of lower_tokens
\* holding every occurrence of each alphabetic non-stop token, lower_tokens
\* is tokens lower-cased position by position, and lemmatized[i] is the lemma
\* of no_stops[i].
C10_FiltersKeepOrder ==
  /\ pc \in {"lowered", "alpha", "nostops", "lemmatized"} =>
       /\ Len(lower_tokens) = Len(tokens)
       /\ \A i \in DOMAIN tokens : lower_tokens[i] = lower(tokens[i])
  /\ pc \in {"nostops", "lemmatized"} =>
       /\ IsSubsequence(alpha_only, lower_tokens)
       /\ IsSubsequence(no_stops, alpha_only)
       /\ IsSubsequence(no_stops, lower_tokens)
       /\ \A t \in Range(lower_tokens) :
            Occurrences(no_stops, t) =
              IF isalpha(t) /\ ~IsStop(t) THEN Occurrences(lower_tokens, t) ELSE 0
  /\ pc = "lemmatized" =>
       /\ Len(lemmatized) = Len(no_stops)
       /\ \A i \in DOMAIN no_stops : lemmatized[i] = lemmatize(no_stops[i])

\* two different surviving tokens, in descending str order, after a deleted
\* one, and a lemma that differs from its token
C10_Witness ==
  /\ pc = "lemmatized"
  /\ Len(no_stops) = 2
  /\ Len(tokens) = 3
  /\ StrLess(no_stops[2], no_stops[1])
  /\ lemmatized # no_stops

====
